---- MODULE Spec2Model ----
(***************************************************************************)
(* Model of legal-case-pipelines: the ChatGPT client's retry loop          *)
(* (src/chatgpt_client.py) and the two batch drivers that call it          *)
(* (src/main_json_processor.py, src/main.py).                              *)
(*                                                                         *)
(* Time is counted in milliseconds (the source uses float seconds).        *)
(* random.random() is a choice r/1000 with r in JitterChoices; a float     *)
(* product is the floor of the exact product.                              *)
(***************************************************************************)
EXTENDS Integers, Sequences, FiniteSets, TLC

(***************************************************************************)
(* Bounds of the model.                                                    *)
(***************************************************************************)
\* configured MAX_RETRIES values explored besides the default: 1..MaxRetriesCfg
MaxRetriesCfg == 3
\* JSON files / PDF files in the input directory: 0..MaxFiles
MaxFiles == 2
\* cases of one run that lie behind the skipped head of their file
MaxCases == 2
\* the same, in the runs of one long file against an endpoint that answers
MaxLongRun == 6
\* consecutive analyze_case invocations of the runs that show every request
MaxSeqCases == 2
\* attempt indices 0..MaxBackoffAttempt-1 over which the backoff is compared
MaxBackoffAttempt == 9
\* MAX_RETRIES in the environment of the driver runs that set it
EnvMaxRetries == 2

(***************************************************************************)
(* Program constants.                                                      *)
(***************************************************************************)
\* chatgpt_client.py:31 and json_config.py:30
DEFAULT_MAX_RETRIES == 6
\* chatgpt_client.py:32 (1.8, in tenths)
DEFAULT_BACKOFF_BASE10 == 18
\* chatgpt_client.py:33 (45 s)
DEFAULT_BACKOFF_CAP_MS == 45000
\* chatgpt_client.py:175 (wait_time = 2.0)
PARSE_RETRY_WAIT_MS == 2000
\* chatgpt_client.py:185 (suggested_wait + 5)
RATE_LIMIT_BUFFER_S == 5
\* chatgpt_client.py:82 (max(1.0, ...))
MIN_WAIT_MS == 1000
\* main_json_processor.py:113 (len(case_data) > 50, case_data[50:])
SKIP_COUNT == 50
\* config.py:25 (self.MAX_RETRIES = 3)
PDF_CONFIG_MAX_RETRIES == 3
\* json_config.py:29 (REQUEST_DELAY, default "2.0")
REQUEST_DELAY_MS == 2000
\* main_json_processor.py:202 (file_processed % 10 == 0)
BREAK_EVERY == 10
\* main_json_processor.py:204 (time.sleep(5))
BREAK_MS == 5000
\* main.py:68 (time.sleep(1))
PDF_DELAY_MS == 1000
\* spec.md 4.4: "every Nth success (recommended N=5) writes a checkpoint"
CHECKPOINT_EVERY == 5

Min(a, b) == IF a <= b THEN a ELSE b
Max(a, b) == IF a >= b THEN a ELSE b

\* Python's None, as a returned value
None == "None"

VARIABLES
    max_retries,      \* ChatGPTClient.max_retries
    backoff_base10,   \* ChatGPTClient.backoff_base, in tenths
    backoff_cap,      \* ChatGPTClient.backoff_cap, in ms
    config,           \* the retry settings of the configuration object:
                      \* MAX_RETRIES, BACKOFF_BASE (tenths), BACKOFF_CAP (ms)
    call,             \* the analyze_case call in progress, or the last one
    driver,           \* the script that runs: "json", "pdf", or "none"
    pc,               \* where main() is: "start", "files", "cases", "done",
                      \* or "call" (inside analyze_case, request by request)
    api_key,          \* whether OPENAI_API_KEY is set (to a real key)
    n_files,          \* len(json_files) / len(pdf_files)
    file_i,           \* the files loop's i (0 before the first file)
    cases_len,        \* len(cases_to_process) of the current file
    case_index,       \* the cases loop's case_index
    results,          \* results
    failed_cases_detail,   \* failed_cases_detail
    total_processed, total_successful, total_failed,
    output_file,      \* config.OUTPUT_FILE on disk
    failure_log_file, \* the failure log on disk
    file_processed,   \* file_processed of the JSON driver
    driver_slept,     \* the time.sleep calls of main() since analyze_case was
                      \* last invoked: their durations, in order
    gap,              \* driver_slept as it was when analyze_case was last invoked
    at,               \* where the thread is inside analyze_case: "loop", or
                      \* "post" while requests.post has not come back
    in_flight,        \* the requests sent and not yet answered
    \* observers of the run (no program state)
    prior,            \* the result collection an earlier run left on disk
    loaded,           \* cases loaded so far (bounds the run)
    requested,        \* case ids for which an endpoint request was issued
    submitted_n,      \* cases passed to analyze_case
    unusable_cases,   \* cases that raised or got no usable result
    missed,           \* a valid case of a loaded file was passed over
    last_case         \* the case the last step dealt with

(***************************************************************************)
(* The endpoint's answers.  An outcome of requests.post is an exception    *)
(* of the requests library or an HTTP response: status, the Retry-After    *)
(* header (<<>> when absent, <<n>> for the text of the integer n) and,     *)
(* for a 200, the message content as a sequence of tokens: "fence" is a    *)
(* run of three backquotes, "ws" a run of whitespace.                      *)
(***************************************************************************)
Exc(e) ==
    [exc |-> e, status |-> 0, retry_after |-> <<>>, has_content |-> FALSE,
     content |-> <<>>, message |-> <<>>]
Http(s, h, c) ==
    [exc |-> "none", status |-> s, retry_after |-> h, has_content |-> TRUE,
     content |-> c, message |-> <<>>]

\* The error message in the body of a 429 (error.message) is a sequence of
\* parts: a piece of text, or a run of digits with its value.  <<>> stands
\* for a body without an error message.
Word(w) == [t |-> w, n |-> 0]
Num(n) == [t |-> "digits", n |-> n]
Http429(h, msg) == [Http(429, h, <<>>) EXCEPT !.message = msg]
\* a 200 with a JSON object as its content
Ok200 == Http(200, <<>>, <<"{obj}">>)
\* a 200 whose body has no choices[0].message.content
Http200NoContent == [Http(200, <<>>, <<>>) EXCEPT !.has_content = FALSE]

\* tokens that json.loads accepts as one JSON document, and what it returns
JsonValueTokens == {"{obj}", "{}", "[arr]", "0", "null"}
JsonValue(tok) == IF tok = "null" THEN None ELSE tok

\* message contents the endpoint may produce
Contents ==
    { <<"{obj}">>,
      <<"ws", "fence", "json", "ws", "{obj}", "ws", "fence", "ws">>,
      <<"fence", "ws", "{obj}", "ws", "fence">>,
      <<"junk", "{obj}">>,
      <<"{}">>,
      <<"fence", "json", "[arr]", "fence">>,
      <<"fence", "ws", "0", "ws", "fence">>,
      <<"ws", "null", "ws">>,
      <<"fence", "ws", "json", "ws", "{obj}", "ws", "fence">>,
      <<"fence", "json", "ws", "{obj}">> }

RetryAfterHeaders == {<<>>, <<0>>, <<10>>, <<60>>}

Outcomes ==
    {Http(200, <<>>, c) : c \in Contents}
    \cup {Http(429, h, <<>>) : h \in RetryAfterHeaders}
    \cup {Http(s, <<>>, <<>>) : s \in {204, 404, 500, 503}}
    \cup {Http200NoContent}
    \cup {Exc(e) : e \in {"Timeout", "ConnectionError", "RequestException"}}

\* random.random() * 1000
JitterChoices == {0, 999}

(***************************************************************************)
(* str.strip, and the fence removal of analyze_case (lines 152-159).       *)
(***************************************************************************)
RECURSIVE lstrip(_)
lstrip(s) == IF s # <<>> /\ Head(s) = "ws" THEN lstrip(Tail(s)) ELSE s

RECURSIVE rstrip(_)
rstrip(s) ==
    IF s # <<>> /\ s[Len(s)] = "ws" THEN rstrip(SubSeq(s, 1, Len(s) - 1)) ELSE s

strip(s) == rstrip(lstrip(s))

startswith(s, p) == Len(s) >= Len(p) /\ SubSeq(s, 1, Len(p)) = p
endswith(s, p) == Len(s) >= Len(p) /\ SubSeq(s, Len(s) - Len(p) + 1, Len(s)) = p

clean_content_keep_tag(content) ==
    LET c1 == strip(content)
        c2 == IF startswith(c1, <<"fence">>) THEN SubSeq(c1, 2, Len(c1)) ELSE c1
        c3 == IF endswith(c2, <<"fence">>) THEN SubSeq(c2, 1, Len(c2) - 1) ELSE c2
    IN  strip(c3)

clean_content(content) ==
    LET c1 == strip(content)
        c2 == IF startswith(c1, <<"fence", "json">>) THEN SubSeq(c1, 3, Len(c1))
              ELSE IF startswith(c1, <<"fence">>) THEN SubSeq(c1, 2, Len(c1))
              ELSE c1
        c3 == IF endswith(c2, <<"fence">>) THEN SubSeq(c2, 1, Len(c2) - 1) ELSE c2
    IN  strip(c3)

\* json.loads: one value token parses, anything else raises JSONDecodeError
json_ok(content) == Len(content) = 1 /\ content[1] \in JsonValueTokens
json_loads(content) == JsonValue(content[1])

(***************************************************************************)
(* _calculate_wait_time (lines 77-82).                                     *)
(***************************************************************************)
\* backoff_base ** attempt in ms.  The power is computed step by step and
\* saturates once it is above the cap (and above 1 s = base ** 0), which
\* leaves min(power, cap) as it is for a base >= 1.
RECURSIVE capped_power(_)
capped_power(attempt) ==
    IF attempt = 0 THEN Min(1000, Max(backoff_cap, 1000))
    ELSE Min((capped_power(attempt - 1) * backoff_base10) \div 10,
             Max(backoff_cap, 1000))

base_wait_shrinking(attempt) ==
    Min((1000 * 1000) \div capped_power(attempt), backoff_cap)

\* min(self.backoff_base ** attempt, self.backoff_cap) (line 79)
base_wait(attempt) == Min(capped_power(attempt), backoff_cap)

calculate_wait_time_jitter50(attempt, r) ==
    LET jitter == (base_wait(attempt) * (2 * r - 1000)) \div 2000
    IN  Max(MIN_WAIT_MS, base_wait(attempt) + jitter)

calculate_wait_time(attempt, r) ==
    LET jitter == (base_wait(attempt) * (2 * r - 1000)) \div 5000
    IN  Max(MIN_WAIT_MS, base_wait(attempt) + jitter)

(***************************************************************************)
(* _handle_rate_limit_error (lines 84-112): <<>> is None.                  *)
(***************************************************************************)
\* 'Rate limit' in error_msg or 'quota' in error_msg.lower() (line 96)
has_rate_word(msg) ==
    \E i \in 1..Len(msg) : msg[i].t \in {"Rate limit", "quota", "Quota"}

\* 'Try again in' in error_msg (line 98)
has_try_again(msg) == \E i \in 1..Len(msg) : msg[i].t = "Try again in"

\* where re.search(r'Try again in (\d+)s', error_msg) matches (line 101)
seconds_matches(msg) ==
    {i \in 1..(Len(msg) - 2) :
        /\ msg[i].t = "Try again in"
        /\ msg[i + 1].t = "digits"
        /\ msg[i + 2].t = "s"}

\* where re.search(r'Try again in (\d+)m(\d+)s', error_msg) matches (105)
minutes_matches(msg) ==
    {i \in 1..(Len(msg) - 4) :
        /\ msg[i].t = "Try again in"
        /\ msg[i + 1].t = "digits"
        /\ msg[i + 2].t = "m"
        /\ msg[i + 3].t = "digits"
        /\ msg[i + 4].t = "s"}

\* the leftmost match
first_of(S) == CHOOSE i \in S : \A j \in S : i <= j

\* lines 92-107: the wait the message suggests
message_hint(msg) ==
    IF ~(has_rate_word(msg) /\ has_try_again(msg)) THEN <<>>
    ELSE IF seconds_matches(msg) # {}
    THEN <<msg[first_of(seconds_matches(msg)) + 1].n>>
    ELSE IF minutes_matches(msg) # {}
    THEN LET i == first_of(minutes_matches(msg))
         IN  <<msg[i + 1].n * 60 + msg[i + 3].n>>
    ELSE <<>>

handle_rate_limit_error(o) ==
    IF o.retry_after # <<>> THEN <<o.retry_after[1]>>
    ELSE message_hint(o.message)

\* "if suggested_wait:" (line 184): None and 0 are both false
suggested_truthy(s) == s # <<>> /\ s[1] # 0

rate_limit_wait(o, attempt, r) ==
    LET s == handle_rate_limit_error(o)
    IN  IF suggested_truthy(s)
        THEN Min((s[1] + RATE_LIMIT_BUFFER_S) * 1000, backoff_cap)
        ELSE calculate_wait_time(attempt, r)

(***************************************************************************)
(* One iteration of "for attempt in range(self.max_retries)" (134-248):    *)
(* what the body does with outcome o of the request.                       *)
(***************************************************************************)
Return(v) == [act |-> "return", result |-> v, sleep |-> FALSE, wait |-> 0]
Continue(w) == [act |-> "continue", result |-> None, sleep |-> TRUE, wait |-> w]
Raise == [act |-> "raise", result |-> None, sleep |-> FALSE, wait |-> 0]

is_last(attempt) == attempt = max_retries - 1
not_last(attempt) == attempt < max_retries - 1

on_200_backoff(attempt, o) ==
    IF ~o.has_content THEN Raise
    ELSE IF json_ok(clean_content(o.content))
    THEN Return(json_loads(clean_content(o.content)))
    ELSE IF is_last(attempt) THEN Return(None)
    ELSE Continue(calculate_wait_time(attempt, 0))

\* status 200 (lines 146-178)
on_200(attempt, o) ==
    IF ~o.has_content THEN Raise
    ELSE IF json_ok(clean_content(o.content))
    THEN Return(json_loads(clean_content(o.content)))
    ELSE IF is_last(attempt) THEN Return(None)
    ELSE Continue(PARSE_RETRY_WAIT_MS)

\* status 429 (lines 181-191)
on_429(attempt, o, r) == Continue(rate_limit_wait(o, attempt, r))

\* status >= 500 (lines 194-198)
on_5xx(attempt, r) == Continue(calculate_wait_time(attempt, r))

on_4xx_retrying(attempt, r) == Continue(calculate_wait_time(attempt, r))

\* status >= 400, not 429 (lines 201-203)
on_4xx(attempt, r) == Return(None)

retry_never(attempt, r) == Return(None)

\* any other status, and the three except clauses (lines 206-248)
retry_unless_last(attempt, r) ==
    IF not_last(attempt) THEN Continue(calculate_wait_time(attempt, r))
    ELSE Return(None)

loop_body(attempt, o, r) ==
    IF o.exc # "none" THEN retry_unless_last(attempt, r)
    ELSE IF o.status = 200 THEN on_200(attempt, o)
    ELSE IF o.status = 429 THEN on_429(attempt, o, r)
    ELSE IF o.status >= 500 THEN on_5xx(attempt, r)
    ELSE IF o.status >= 400 THEN on_4xx(attempt, r)
    ELSE retry_unless_last(attempt, r)

\* the answer was a 200 whose content json.loads rejected (lines 166-178)
parse_failed(o) ==
    /\ o.exc = "none"
    /\ o.status = 200
    /\ o.has_content
    /\ ~json_ok(clean_content(o.content))

\* the failures after which another attempt is worth while: rate limit,
\* server error, the exceptions of requests, a content that does not parse
retryable(o) ==
    \/ o.exc \in {"Timeout", "ConnectionError", "RequestException"}
    \/ o.exc = "none" /\ (o.status = 429 \/ o.status >= 500)
    \/ parse_failed(o)

(***************************************************************************)
(* The state of one analyze_case call.  attempt is the loop variable of    *)
(* the next iteration; requests, sleeps, slept, last_wait, last_slept,     *)
(* last, all_5xx and retried_only (every answer before the last was a      *)
(* retryable failure) observe what the call did.                           *)
(***************************************************************************)
NoOutcome == Exc("nothing yet")

IdleCall ==
    [st |-> "idle", attempt |-> 0, requests |-> 0, sleeps |-> 0, slept |-> 0,
     last_wait |-> 0, last_slept |-> FALSE, last |-> NoOutcome,
     all_5xx |-> TRUE, retried_only |-> TRUE, result |-> None]

loop_continues_once_more(attempt) == attempt <= max_retries

\* the bound of the loop: range(self.max_retries) (line 134)
loop_continues(attempt) == attempt < max_retries

\* analyze_case up to the first iteration (lines 114-134); with nothing to
\* iterate over it falls through to "return None" (250-251)
NewCall ==
    [IdleCall EXCEPT !.st = IF loop_continues(0) THEN "attempting" ELSE "returned"]

step_call(c, o, r) ==
    LET b == loop_body(c.attempt, o, r)
    IN  [st |-> IF b.act = "raise" THEN "raised"
                ELSE IF b.act = "continue" /\ loop_continues(c.attempt + 1)
                THEN "attempting"
                ELSE "returned",
         attempt |-> c.attempt + 1,
         requests |-> c.requests + 1,
         sleeps |-> c.sleeps + (IF b.sleep THEN 1 ELSE 0),
         slept |-> c.slept + b.wait,
         last_wait |-> b.wait,
         last_slept |-> b.sleep,
         last |-> o,
         all_5xx |-> c.all_5xx /\ o.exc = "none" /\ o.status >= 500,
         retried_only |->
            c.retried_only /\ (c.requests = 0 \/ retryable(c.last)),
         result |-> b.result]

\* a scripted endpoint: its k-th answer, the last one repeating for ever
ScriptAt(script, k) == IF k <= Len(script) THEN script[k] ELSE script[Len(script)]

RECURSIVE run_call(_, _, _)
run_call(c, script, r) ==
    IF c.st # "attempting" THEN c
    ELSE run_call(step_call(c, ScriptAt(script, c.attempt + 1), r), script, r)

\* a whole analyze_case call against a scripted endpoint
analyze_case(script, r) == run_call(NewCall, script, r)

client_vars == <<max_retries, backoff_base10, backoff_cap, config>>
driver_vars ==
    <<driver, pc, api_key, n_files, file_i, cases_len, case_index, results,
      failed_cases_detail, total_processed, total_successful, total_failed,
      output_file, failure_log_file>>
observer_vars ==
    <<prior, loaded, requested, submitted_n, unusable_cases, missed, last_case>>
pace_vars == <<file_processed, driver_slept, gap>>
wire_vars == <<at, in_flight>>
vars == <<client_vars, call, driver_vars, pace_vars, wire_vars, observer_vars>>

NoFile == [exists |-> FALSE, fresh |-> FALSE, data |-> <<>>]
NoCase ==
    [seen |-> FALSE, file |-> 0, index |-> 0, is_dict |-> FALSE,
     lacks_required |-> FALSE, case_id |-> 0, submitted |-> FALSE,
     requests |-> 0, outcome |-> "none"]

\* the state of main() before its first statement, for the driver d
InitDriverVars(d) ==
    /\ driver = d
    /\ pc = IF d = "none" THEN "done" ELSE "start"
    /\ file_i = 0
    /\ cases_len = 0
    /\ case_index = 0
    /\ results = <<>>
    /\ failed_cases_detail = <<>>
    /\ total_processed = 0
    /\ total_successful = 0
    /\ total_failed = 0
    /\ failure_log_file = NoFile
    /\ file_processed = 0
    /\ driver_slept = <<>>
    /\ gap = <<>>
    /\ at = "loop"
    /\ in_flight = {}
    /\ loaded = 0
    /\ requested = {}
    /\ submitted_n = 0
    /\ unusable_cases = {}
    /\ missed = FALSE
    /\ last_case = NoCase

(***************************************************************************)
(* The client alone: a ChatGPTClient built from a configuration           *)
(* (__init__, lines 24-28), whose analyze_case is called once and runs     *)
(* one loop iteration per step.                                            *)
(***************************************************************************)
Configs ==
    [max_retries : (1..MaxRetriesCfg) \cup {DEFAULT_MAX_RETRIES},
     backoff_base10 : {DEFAULT_BACKOFF_BASE10, 100},
     backoff_cap : {1000, DEFAULT_BACKOFF_CAP_MS}]

\* a configuration object with the retry settings of JsonConfig
RetryConfig(n, base10, cap) ==
    [MAX_RETRIES |-> n, has_backoff |-> TRUE, BACKOFF_BASE10 |-> base10,
     BACKOFF_CAP |-> cap]

InitClient ==
    /\ \E cfg \in Configs :
        /\ config =
              RetryConfig(cfg.max_retries, cfg.backoff_base10, cfg.backoff_cap)
        /\ max_retries = cfg.max_retries
        /\ backoff_base10 = cfg.backoff_base10
        /\ backoff_cap = cfg.backoff_cap
    /\ call = IdleCall
    /\ InitDriverVars("none")
    /\ api_key = TRUE
    /\ n_files = 0
    /\ prior = <<>>
    /\ output_file = NoFile

\* analyze_case is entered (lines 114-134)
BeginCall ==
    /\ driver = "none"
    /\ call.st = "idle"
    /\ call' = NewCall
    /\ UNCHANGED <<client_vars, wire_vars, pace_vars, driver_vars,
                   observer_vars>>

\* one iteration of the retry loop, the sleep at its end included
Attempt ==
    /\ driver = "none"
    /\ call.st = "attempting"
    /\ \E o \in Outcomes, r \in JitterChoices : call' = step_call(call, o, r)
    /\ UNCHANGED <<client_vars, wire_vars, pace_vars, driver_vars,
                   observer_vars>>

NextClient == BeginCall \/ Attempt

SpecClient == InitClient /\ [][NextClient]_vars

(***************************************************************************)
(* The client against an endpoint that limits the rate: every answer is a  *)
(* 429, with a Retry-After header or with an error message in its body,    *)
(* until the result comes.                                                 *)
(***************************************************************************)
Messages ==
    { <<Word("Rate limit"), Word("text"), Word("Try again in"), Num(20), Word("s")>>,
      <<Word("Rate limit"), Word("Try again in"), Num(1), Word("m"), Num(12),
        Word("s")>>,
      <<Word("Quota"), Word("Try again in"), Num(0), Word("m"), Num(7), Word("s")>>,
      <<Word("text"), Word("Try again in"), Num(20), Word("s")>>,
      <<Word("Rate limit"), Word("Try again in"), Num(0), Word("s")>>,
      <<Word("Rate limit"), Word("text")>>,
      <<Word("quota"), Word("Try again in"), Word("text")>>,
      <<>> }

RateLimitOutcomes ==
    {Http429(<<>>, msg) : msg \in Messages}
    \cup {Http429(<<10>>, <<Word("Rate limit"), Word("Try again in"), Num(20),
                           Word("s")>>)}
    \cup {Ok200}

\* one iteration of the retry loop, the sleep at its end included
AttemptRateLimited ==
    /\ driver = "none"
    /\ call.st = "attempting"
    /\ \E o \in RateLimitOutcomes, r \in JitterChoices :
          call' = step_call(call, o, r)
    /\ UNCHANGED <<client_vars, wire_vars, pace_vars, driver_vars,
                   observer_vars>>

NextRateLimit == BeginCall \/ AttemptRateLimited

SpecRateLimit == InitClient /\ [][NextRateLimit]_vars

(***************************************************************************)
(* The raw elements of an input file.  A JSON object is described by the   *)
(* keys the code looks at: CaseID and index hold a case id (0: key         *)
(* absent), the others say whether the key is present.  Anything else      *)
(* (a number, a string, a list, null) is NonDict.                          *)
(***************************************************************************)
\* the case identifiers of the input
CaseIds == {1, 2}

DictShapes ==
    [is_dict : {TRUE}, CaseID : {0} \cup CaseIds, index : {0, 1},
     def_key : BOOLEAN, Background : BOOLEAN, background : BOOLEAN]

NonDict ==
    [is_dict |-> FALSE, CaseID |-> 0, index |-> 0, def_key |-> FALSE,
     Background |-> FALSE, background |-> FALSE]

Shapes == DictShapes \cup {NonDict}

\* the fallback filling of main() (lines 144-151)
normalize(c) ==
    LET c1 == IF c.CaseID = 0 /\ c.index # 0 THEN [c EXCEPT !.CaseID = c.index]
              ELSE c
    IN  IF ~c1.Background /\ c1.background THEN [c1 EXCEPT !.Background = TRUE]
        ELSE c1

validate_case_data_no_def_key(c) ==
    /\ ~(c.CaseID = 0 /\ c.index = 0)
    /\ ~(~c.Background /\ ~c.background)

\* validate_case_data (lines 26-40)
validate_case_data(c) ==
    /\ ~(c.CaseID = 0 /\ c.index = 0)
    /\ c.def_key
    /\ ~(~c.Background /\ ~c.background)

\* "if analysis_result:" (main_json_processor.py:178, main.py:60)
truthy(v) == v \in {"{obj}", "[arr]"}

\* what a driver makes of a finished call: the exception handler, the
\* "if analysis_result:" branch or its else branch
case_outcome(done) ==
    IF done.st = "raised" THEN "raised"
    ELSE IF truthy(done.result) THEN "success"
    ELSE "no_result"

(***************************************************************************)
(* The endpoints the drivers run against: scripted answers.                *)
(***************************************************************************)

DriverScripts ==
    { <<Ok200>>,
      <<Http(200, <<>>, <<"fence", "json", "ws", "{obj}", "ws", "fence">>)>>,
      <<Http(200, <<>>, <<"{}">>)>>,
      <<Http(404, <<>>, <<>>)>>,
      <<Http(500, <<>>, <<>>)>>,
      <<Http(503, <<>>, <<>>), Ok200>>,
      <<Http200NoContent>>,
      <<Http(200, <<>>, <<"junk", "{obj}">>)>>,
      <<Http(200, <<>>, <<"[arr]">>)>> }

DriverJitter == {500}

\* results left on disk by an earlier run
PriorOutputs == {<<>>, <<[case_id |-> 1, value |-> "{obj}"]>>}

\* the attributes JsonConfig.__init__ sets (json_config.py, lines 15-32)
JsonConfigAttrs ==
    {"API_KEY", "MODEL", "API_BASE_URL", "MAX_TOKENS", "TEMPERATURE",
     "JSON_DIRECTORY", "OUTPUT_FILE", "REQUEST_TIMEOUT", "MAX_RETRIES",
     "REQUEST_DELAY", "BACKOFF_BASE", "BACKOFF_CAP"}

\* save_failure_log (lines 42-65): reading config.FAILURE_LOG_FILE raises
\* AttributeError inside the try, and the except clause only prints
save_failure_log(log) ==
    IF "FAILURE_LOG_FILE" \in JsonConfigAttrs
    THEN [exists |-> TRUE, fresh |-> TRUE, data |-> log]
    ELSE failure_log_file

FailureRecord(file, index, type) ==
    [file_source |-> file, case_index |-> index, error_type |-> type]

\* ChatGPTClient(config.API_KEY, config.MODEL): no config is passed, so
\* __init__ takes its defaults (chatgpt_client.py, lines 29-34)
InitDefaultClient ==
    /\ max_retries = DEFAULT_MAX_RETRIES
    /\ backoff_base10 = DEFAULT_BACKOFF_BASE10
    /\ backoff_cap = DEFAULT_BACKOFF_CAP_MS
    /\ call = IdleCall

\* JsonConfig() (json_config.py, lines 27-32) with MAX_RETRIES unset or set
\* in the environment; the runs of both drivers below have it unset, the
\* runs request by request have either
JsonConfigs ==
    {RetryConfig(n, DEFAULT_BACKOFF_BASE10, DEFAULT_BACKOFF_CAP_MS) :
        n \in {DEFAULT_MAX_RETRIES, EnvMaxRetries}}

\* Config() (config.py, lines 24-25): MAX_RETRIES and no backoff settings
PdfConfig ==
    [MAX_RETRIES |-> PDF_CONFIG_MAX_RETRIES, has_backoff |-> FALSE,
     BACKOFF_BASE10 |-> 0, BACKOFF_CAP |-> 0]

DefaultJsonConfig ==
    RetryConfig(DEFAULT_MAX_RETRIES, DEFAULT_BACKOFF_BASE10,
                DEFAULT_BACKOFF_CAP_MS)

Init ==
    /\ InitDefaultClient
    /\ \E d \in {"json", "pdf"} :
        /\ InitDriverVars(d)
        /\ config = (IF d = "json" THEN DefaultJsonConfig ELSE PdfConfig)
    /\ api_key \in BOOLEAN
    /\ n_files \in 0..MaxFiles
    /\ prior \in PriorOutputs
    /\ output_file = [exists |-> prior # <<>>, fresh |-> FALSE, data |-> prior]

(***************************************************************************)
(* main() of main_json_processor.py.                                       *)
(***************************************************************************)
\* lines 69-98: validate the configuration, list the directory
JsonStart ==
    /\ driver = "json"
    /\ pc = "start"
    /\ pc' = IF ~api_key \/ n_files = 0 THEN "done" ELSE "files"
    /\ UNCHANGED <<client_vars, wire_vars, pace_vars,
                   call, driver, api_key, n_files, file_i,
                   cases_len, case_index, results, failed_cases_detail,
                   total_processed, total_successful, total_failed,
                   output_file, failure_log_file, observer_vars>>

\* len(cases_to_process) for a file that holds kind (lines 106-132)
cases_to_process_len(kind, n) ==
    IF kind = "list" /\ n > SKIP_COUNT THEN n - SKIP_COUNT ELSE 0

\* lengths of a list file: empty, all of it skipped, or up to rest cases
\* behind the skipped ones
FileLengths(rest) == {0, SKIP_COUNT} \cup {SKIP_COUNT + k : k \in 1..rest}

\* lines 99-132: the next file is loaded; kind is what it holds ("none": it
\* could not be read or parsed), n the length of a list, head_valid whether
\* the part that is not processed holds a valid case
JsonLoadFileOf(max_cases) ==
    /\ driver = "json"
    /\ pc = "files"
    /\ file_i < n_files
    /\ \E kind \in {"none", "dict", "list", "scalar"},
          n \in FileLengths(max_cases - loaded),
          head_valid \in BOOLEAN :
        /\ kind # "list" => n = 0
        /\ head_valid => kind = "dict" \/ (kind = "list" /\ n > 0)
        /\ file_i' = file_i + 1
        /\ cases_len' = cases_to_process_len(kind, n)
        /\ case_index' = 0
        /\ pc' = IF cases_to_process_len(kind, n) = 0 THEN "files" ELSE "cases"
        /\ loaded' = loaded + cases_to_process_len(kind, n)
        /\ missed' = (missed \/ head_valid)
    /\ file_processed' = 0
    /\ last_case' = NoCase
    /\ UNCHANGED <<client_vars, wire_vars, driver_slept, gap,
                   call, driver, api_key, n_files, results,
                   failed_cases_detail, total_processed, total_successful,
                   total_failed, output_file, failure_log_file, prior,
                   requested, submitted_n, unusable_cases>>

JsonLoadFile == JsonLoadFileOf(MaxCases)

\* the cases loop goes on with the next case, or is over (lines 134, 224)
NextCase ==
    /\ case_index' = case_index + 1
    /\ pc' = IF case_index + 1 < cases_len THEN "cases" ELSE "files"
    /\ file_i' = file_i
    /\ cases_len' = cases_len

ThisCase(c, sub, req, out) ==
    [seen |-> TRUE, file |-> file_i, index |-> case_index + SKIP_COUNT + 1,
     is_dict |-> c.is_dict,
     lacks_required |->
        (c.CaseID = 0 /\ c.index = 0) \/ ~c.def_key
            \/ (~c.Background /\ ~c.background),
     case_id |-> normalize(c).CaseID, submitted |-> sub, requests |-> req,
     outcome |-> out]

Key(file, index) == <<file, index>>

\* lines 134-222 for an element that is no JSON object: line 138 or 142
\* raises TypeError, and in the handler single_case.get (line 212) raises
\* AttributeError, which leaves the cases loop for the handler of the files
\* loop (lines 226-228); rest_valid: a later case of the file is valid
JsonCaseNotDict ==
    /\ driver = "json"
    /\ pc = "cases"
    /\ \E rest_valid \in BOOLEAN :
        /\ rest_valid => case_index + 1 < cases_len
        /\ missed' = (missed \/ rest_valid)
    /\ pc' = "files"
    /\ last_case' = ThisCase(NonDict, FALSE, 0, "aborted")
    /\ unusable_cases' =
          unusable_cases \cup {Key(file_i, case_index + SKIP_COUNT + 1)}
    /\ UNCHANGED <<client_vars, wire_vars, pace_vars,
                   call, driver, api_key, n_files, file_i,
                   cases_len, case_index, results, failed_cases_detail,
                   total_processed, total_successful, total_failed,
                   output_file, failure_log_file, prior, loaded, requested,
                   submitted_n>>

\* lines 134-167 for a JSON object that fails validate_case_data
JsonCaseInvalid ==
    /\ driver = "json"
    /\ pc = "cases"
    /\ \E c \in DictShapes :
        /\ ~validate_case_data(normalize(c))
        /\ last_case' = ThisCase(c, FALSE, 0, "invalid")
    /\ failed_cases_detail' =
          Append(failed_cases_detail,
                 FailureRecord(file_i, case_index + SKIP_COUNT + 1,
                               "Invalid case data"))
    /\ NextCase
    /\ UNCHANGED <<client_vars, wire_vars, pace_vars,
                   call, driver, api_key, n_files, results,
                   total_processed, total_successful, total_failed,
                   output_file, failure_log_file, prior, loaded, requested,
                   submitted_n, unusable_cases, missed>>

\* the sleeps at the end of the try block (lines 198-204): the request
\* delay and, after every tenth processed case of the file, a break
sleeps_after_case(index, len, processed) ==
    IF index < len - 1
    THEN <<REQUEST_DELAY_MS>>
            \o (IF processed % BREAK_EVERY = 0 THEN <<BREAK_MS>> ELSE <<>>)
    ELSE <<>>

\* lines 134-222 for a valid JSON object: analyze_case runs to its end
\* against the scripted endpoint, and its result is booked
JsonCaseAnalyzedWith(scripts) ==
    /\ driver = "json"
    /\ pc = "cases"
    /\ \E script \in scripts, r \in DriverJitter :
        \E done \in {analyze_case(script, r)} :
          \E c \in {d \in DictShapes : validate_case_data(normalize(d))} :
            LET idx == case_index + SKIP_COUNT + 1
                out == case_outcome(done)
            IN  /\ call' = done
                /\ total_processed' = total_processed + 1
                /\ submitted_n' = submitted_n + 1
                /\ requested' =
                      IF done.requests > 0
                      THEN requested \cup {normalize(c).CaseID} ELSE requested
                /\ last_case' = ThisCase(c, TRUE, done.requests, out)
                /\ results' =
                      IF out = "success"
                      THEN Append(results, [case_id |-> normalize(c).CaseID,
                                            value |-> done.result])
                      ELSE results
                /\ total_successful' =
                      IF out = "success" THEN total_successful + 1
                      ELSE total_successful
                /\ failed_cases_detail' =
                      IF out = "raised"
                      THEN Append(failed_cases_detail,
                                  FailureRecord(file_i, idx, "Processing exception"))
                      ELSE IF out = "no_result"
                      THEN Append(failed_cases_detail,
                                  FailureRecord(file_i, idx, "API analysis failed"))
                      ELSE failed_cases_detail
                /\ total_failed' =
                      IF out = "success" THEN total_failed ELSE total_failed + 1
                /\ unusable_cases' =
                      IF out = "success" THEN unusable_cases
                      ELSE unusable_cases \cup {Key(file_i, idx)}
                /\ driver_slept' =
                      IF out = "raised" THEN <<>>
                      ELSE sleeps_after_case(case_index, cases_len,
                                             file_processed + 1)
    /\ file_processed' = file_processed + 1
    /\ gap' = driver_slept
    /\ NextCase
    /\ UNCHANGED <<client_vars, wire_vars,
                   driver, api_key, n_files, output_file,
                   failure_log_file, prior, loaded, missed>>

JsonCaseAnalyzed == JsonCaseAnalyzedWith(DriverScripts)

\* lines 230-267: after the last file the failure log and the results are
\* saved
JsonFinish ==
    /\ driver = "json"
    /\ pc = "files"
    /\ file_i = n_files
    /\ pc' = "done"
    /\ failure_log_file' =
          IF failed_cases_detail # <<>> THEN save_failure_log(failed_cases_detail)
          ELSE failure_log_file
    /\ output_file' =
          IF results # <<>>
          THEN [exists |-> TRUE, fresh |-> TRUE, data |-> results]
          ELSE output_file
    /\ UNCHANGED <<client_vars, wire_vars, pace_vars,
                   call, driver, api_key, n_files, file_i,
                   cases_len, case_index, results, failed_cases_detail,
                   total_processed, total_successful, total_failed,
                   observer_vars>>

(***************************************************************************)
(* main() of main.py.                                                      *)
(***************************************************************************)
\* lines 16-33: Config() is built but not validated; the directory is listed
PdfStart ==
    /\ driver = "pdf"
    /\ pc = "start"
    /\ pc' = IF n_files = 0 THEN "done" ELSE "files"
    /\ UNCHANGED <<client_vars, wire_vars, pace_vars,
                   call, driver, api_key, n_files, file_i,
                   cases_len, case_index, results, failed_cases_detail,
                   total_processed, total_successful, total_failed,
                   output_file, failure_log_file, observer_vars>>

PdfCase(sub, req, out) ==
    [seen |-> TRUE, file |-> file_i + 1, index |-> 1, is_dict |-> TRUE,
     lacks_required |-> FALSE, case_id |-> file_i + 1, submitted |-> sub,
     requests |-> req, outcome |-> out]

\* lines 35-45: a file from which no text could be extracted is passed over
PdfFileNoText ==
    /\ driver = "pdf"
    /\ pc = "files"
    /\ file_i < n_files
    /\ file_i' = file_i + 1
    /\ last_case' = NoCase
    /\ UNCHANGED <<client_vars, wire_vars, pace_vars,
                   call, driver, pc, api_key, n_files, cases_len,
                   case_index, results, failed_cases_detail, total_processed,
                   total_successful, total_failed, output_file,
                   failure_log_file, prior, loaded, requested, submitted_n,
                   unusable_cases, missed>>

\* the sleep at the end of the try block (lines 66-68)
sleep_after_file(i, len) == IF i < len THEN <<PDF_DELAY_MS>> ELSE <<>>

\* lines 35-72: the case CASE_00i is built from the text and analysed; a
\* failure or an exception is only printed
PdfFileAnalyzed ==
    /\ driver = "pdf"
    /\ pc = "files"
    /\ file_i < n_files
    /\ \E script \in DriverScripts, r \in DriverJitter :
        \E done \in {analyze_case(script, r)} :
            LET out == case_outcome(done)
            IN  /\ call' = done
                /\ submitted_n' = submitted_n + 1
                /\ requested' =
                      IF done.requests > 0 THEN requested \cup {file_i + 1}
                      ELSE requested
                /\ last_case' = PdfCase(TRUE, done.requests, out)
                /\ results' =
                      IF out = "success"
                      THEN Append(results, [case_id |-> file_i + 1,
                                            value |-> done.result])
                      ELSE results
                /\ unusable_cases' =
                      IF out = "success" THEN unusable_cases
                      ELSE unusable_cases \cup {Key(file_i + 1, 1)}
                /\ driver_slept' =
                      IF out = "raised" THEN <<>>
                      ELSE sleep_after_file(file_i + 1, n_files)
    /\ file_i' = file_i + 1
    /\ gap' = driver_slept
    /\ UNCHANGED <<client_vars, wire_vars, file_processed,
                   driver, pc, api_key, n_files, cases_len,
                   case_index, failed_cases_detail, total_processed,
                   total_successful, total_failed, output_file,
                   failure_log_file, prior, loaded, missed>>

\* lines 74-83: the results are saved
PdfFinish ==
    /\ driver = "pdf"
    /\ pc = "files"
    /\ file_i = n_files
    /\ pc' = "done"
    /\ output_file' =
          IF results # <<>>
          THEN [exists |-> TRUE, fresh |-> TRUE, data |-> results]
          ELSE output_file
    /\ UNCHANGED <<client_vars, wire_vars, pace_vars,
                   call, driver, api_key, n_files, file_i,
                   cases_len, case_index, results, failed_cases_detail,
                   total_processed, total_successful, total_failed,
                   failure_log_file, observer_vars>>

Next ==
    \/ JsonStart
    \/ JsonLoadFile
    \/ JsonCaseNotDict
    \/ JsonCaseInvalid
    \/ JsonCaseAnalyzed
    \/ JsonFinish
    \/ PdfStart
    \/ PdfFileNoText
    \/ PdfFileAnalyzed
    \/ PdfFinish

Spec == Init /\ [][Next]_vars

(***************************************************************************)
(* Runs of the JSON driver over one long list file, against an endpoint    *)
(* that answers every request with a result or with a 404.                 *)
(***************************************************************************)
InitLongRun ==
    /\ InitDefaultClient
    /\ config = DefaultJsonConfig
    /\ InitDriverVars("json")
    /\ api_key = TRUE
    /\ n_files = 1
    /\ prior = <<>>
    /\ output_file = NoFile

JsonLoadLongFile == JsonLoadFileOf(MaxLongRun)

JsonCaseAnswered == JsonCaseAnalyzedWith({<<Ok200>>, <<Http(404, <<>>, <<>>)>>})

NextLongRun == JsonStart \/ JsonLoadLongFile \/ JsonCaseAnswered \/ JsonFinish

SpecLongRun == InitLongRun /\ [][NextLongRun]_vars

(***************************************************************************)
(* The thread of a driver, request by request: main() invokes analyze_case *)
(* for one case after the other (main_json_processor.py:176, main.py:58),  *)
(* and inside analyze_case requests.post (chatgpt_client.py:138-143) is    *)
(* entered, which sends the request, and left when the answer or an        *)
(* exception is there.  The program has one thread and no asynchronous     *)
(* call, so the position of that thread is all there is.                   *)
(***************************************************************************)
SeqOutcomes ==
    { Ok200,
      Http(200, <<>>, <<"junk", "{obj}">>),
      Http(429, <<10>>, <<>>),
      Http(404, <<>>, <<>>),
      Http(500, <<>>, <<>>),
      Http200NoContent,
      Exc("Timeout") }

InitSeq ==
    /\ InitDefaultClient
    /\ config \in JsonConfigs
    /\ InitDriverVars("seq")
    /\ api_key = TRUE
    /\ n_files = 1
    /\ prior = <<>>
    /\ output_file = NoFile

\* the request that the thread sends next
NextRequest == [case |-> submitted_n, n |-> call.requests + Cardinality(in_flight)]

after_post_async == "loop"

\* requests.post is a blocking call: the thread stays in it
after_post == "post"

\* main() calls analyze_case for the next case
SeqInvoke ==
    /\ driver = "seq"
    /\ pc # "call"
    /\ submitted_n < MaxSeqCases
    /\ pc' = "call"
    /\ call' = NewCall
    /\ submitted_n' = submitted_n + 1
    /\ UNCHANGED <<client_vars, wire_vars, pace_vars, driver, api_key,
                   n_files, file_i, cases_len, case_index, results,
                   failed_cases_detail, total_processed, total_successful,
                   total_failed, output_file, failure_log_file, prior, loaded,
                   requested, unusable_cases, missed, last_case>>

\* the loop body enters requests.post (lines 134-143)
SeqPost ==
    /\ driver = "seq"
    /\ pc = "call"
    /\ at = "loop"
    /\ call.st = "attempting"
    /\ in_flight' = in_flight \cup {NextRequest}
    /\ requested' = requested \cup {submitted_n}
    /\ at' = after_post
    /\ UNCHANGED <<client_vars, call, pace_vars, driver_vars, prior, loaded,
                   submitted_n, unusable_cases, missed, last_case>>

\* requests.post comes back and the rest of the loop body runs (144-248)
SeqAnswer ==
    /\ driver = "seq"
    /\ pc = "call"
    /\ at = "post"
    /\ \E o \in SeqOutcomes, r \in DriverJitter : call' = step_call(call, o, r)
    /\ in_flight' = in_flight \ {[case |-> submitted_n, n |-> call.requests]}
    /\ at' = "loop"
    /\ UNCHANGED <<client_vars, pace_vars, driver_vars, observer_vars>>

\* analyze_case is over and main() books its result
SeqReturn ==
    /\ driver = "seq"
    /\ pc = "call"
    /\ at = "loop"
    /\ call.st \in {"returned", "raised"}
    /\ pc' = "cases"
    /\ results' =
          IF case_outcome(call) = "success"
          THEN Append(results, [case_id |-> submitted_n, value |-> call.result])
          ELSE results
    /\ unusable_cases' =
          IF case_outcome(call) = "success" THEN unusable_cases
          ELSE unusable_cases \cup {Key(submitted_n, 1)}
    /\ UNCHANGED <<client_vars, call, wire_vars, pace_vars, driver, api_key,
                   n_files, file_i, cases_len, case_index,
                   failed_cases_detail, total_processed, total_successful,
                   total_failed, output_file, failure_log_file, prior, loaded,
                   requested, submitted_n, missed, last_case>>

NextSeq == SeqInvoke \/ SeqPost \/ SeqAnswer \/ SeqReturn

SpecSeq == InitSeq /\ [][NextSeq]_vars

(***************************************************************************)
(* Claims about analyze_case, checked under SpecClient.                    *)
(***************************************************************************)

\* C2: analyze_case issues at most max_retries requests and then is over
\* (while it is still attempting, fewer than max_retries requests were
\* issued, and every step issues one more); when every answer was a status
\* >= 500 it ends after exactly max_retries requests with the failure None.
C2_BoundedAttempts ==
    /\ call.requests <= max_retries
    /\ call.requests = call.attempt
    /\ (call.st = "attempting" => call.requests < max_retries)
    /\ (call.st = "returned" /\ call.all_5xx =>
            call.requests = max_retries /\ call.result = None)

C2_Witness ==
    /\ call.st = "returned"
    /\ call.all_5xx
    /\ call.requests = DEFAULT_MAX_RETRIES
    /\ max_retries = DEFAULT_MAX_RETRIES

\* C3: an answer with a status in 400..499 other than 429 ends the call at
\* once: the call has returned the failure None, it did not sleep after that
\* answer, and no request follows it.
C3_ClientErrorTerminal ==
    (call.last.exc = "none" /\ call.last.status \in 400..499
        /\ call.last.status # 429) =>
            /\ call.st = "returned"
            /\ call.result = None
            /\ ~call.last_slept
            /\ ~ENABLED Attempt

\* the endpoint answered 404 to the first request of a call that may retry
C3_Witness ==
    /\ call.last.status = 404
    /\ call.requests = 1
    /\ max_retries > 1
    /\ call.st = "returned"

\* C4: after a 429 whose Retry-After header holds the integer N >= 0 the
\* call sleeps exactly min(N + 5 s, backoff_cap).
C4_RetryAfterHonoured ==
    (call.last.exc = "none" /\ call.last.status = 429
        /\ call.last.retry_after # <<>> /\ call.last.retry_after[1] >= 0) =>
            /\ call.last_slept
            /\ call.last_wait =
                 Min((call.last.retry_after[1] + RATE_LIMIT_BUFFER_S) * 1000,
                     backoff_cap)

\* C10 as stated: every wait is at most backoff_cap and the waits of one call
\* sum to at most max_retries * backoff_cap.
C10_WaitsWithinCap ==
    /\ (call.last_slept => call.last_wait <= backoff_cap)
    /\ call.slept <= max_retries * backoff_cap

\* the longest single wait: +20% jitter on a capped backoff, the 1 s floor,
\* the fixed 2 s before a parse retry
WaitBound == Max((12 * backoff_cap) \div 10, Max(MIN_WAIT_MS, PARSE_RETRY_WAIT_MS))

\* C10 amended: every wait is at most max(1.2 * backoff_cap, 2 s), a call
\* waits at most max_retries times, and its waits sum to at most
\* max_retries * max(1.2 * backoff_cap, 2 s).
C10_WaitsWithinJitteredCap ==
    /\ (call.last_slept => call.last_wait <= WaitBound)
    /\ call.sleeps <= max_retries
    /\ call.slept <= max_retries * WaitBound

\* a jittered backoff wait above the cap, in a call whose waits sum to more
\* than max_retries * backoff_cap
C10_Witness ==
    /\ call.last_slept
    /\ call.last_wait > backoff_cap
    /\ backoff_cap = DEFAULT_BACKOFF_CAP_MS
    /\ call.slept > max_retries * backoff_cap

\* an optional run of whitespace
OptWs == {<<>>, <<"ws">>}

\* the JSON text v, bare or between an opening fence (with or without the
\* json tag) and a closing fence, with whitespace around each part
Wrapped(v) ==
    {l \o <<v>> \o t : l \in OptWs, t \in OptWs}
    \cup {l \o op \o a \o <<v>> \o b \o <<"fence">> \o t :
            l \in OptWs, t \in OptWs, a \in OptWs, b \in OptWs,
            op \in {<<"fence">>, <<"fence", "json">>}}

\* C12: when an attempt receives a 200 whose content is well-formed JSON,
\* bare or fenced, analyze_case returns the value of that JSON on that
\* attempt: it does not sleep and issues no further request.
C12_RoundTrip ==
    \A v \in JsonValueTokens :
        (call.last.exc = "none" /\ call.last.status = 200
            /\ call.last.has_content /\ call.last.content \in Wrapped(v)) =>
                /\ call.st = "returned"
                /\ call.result = JsonValue(v)
                /\ ~call.last_slept
                /\ ~ENABLED Attempt

\* a fenced object with the json tag and whitespace, received on a retry
C12_Witness ==
    /\ call.last.status = 200
    /\ call.last.content =
          <<"ws", "fence", "json", "ws", "{obj}", "ws", "fence", "ws">>
    /\ call.requests = 2
    /\ call.st = "returned"
    /\ call.result = "{obj}"

\* C20: with backoff_base = 1.8 and backoff_cap = 45 s the un-jittered wait
\* min(backoff_base ** attempt, backoff_cap) does not decrease from one
\* attempt index to the next and is never above 45 s, over the indices
\* 0 .. max_retries-1 of the retry loop and on to where the cap is reached.
C20_BackoffMonotone ==
    (backoff_base10 = DEFAULT_BACKOFF_BASE10
        /\ backoff_cap = DEFAULT_BACKOFF_CAP_MS) =>
            \A a \in 0..(Max(max_retries, MaxBackoffAttempt) - 1) :
                /\ base_wait(a) <= DEFAULT_BACKOFF_CAP_MS
                /\ (a > 0 => base_wait(a - 1) <= base_wait(a))

\* the loop used every attempt index of the default configuration: it
\* slept the backoff of its last index, within 20% of a wait that is
\* larger than the one before; the cap is reached within the bound
C20_Witness ==
    /\ max_retries = DEFAULT_MAX_RETRIES
    /\ backoff_base10 = DEFAULT_BACKOFF_BASE10
    /\ backoff_cap = DEFAULT_BACKOFF_CAP_MS
    /\ call.attempt = max_retries
    /\ call.last.status = 503
    /\ call.last_slept
    /\ call.last_wait >= (8 * base_wait(max_retries - 1)) \div 10
    /\ base_wait(max_retries - 2) < base_wait(max_retries - 1)
    /\ base_wait(MaxBackoffAttempt - 1) = DEFAULT_BACKOFF_CAP_MS

(***************************************************************************)
(* Claims about the batch drivers, checked under Spec (C7: SpecLongRun).   *)
(***************************************************************************)
\* the failure records of the case at index of file
LedgerFor(file, index) ==
    {k \in 1..Len(failed_cases_detail) :
        /\ failed_cases_detail[k].file_source = file
        /\ failed_cases_detail[k].case_index = index}

\* C1: when the JSON driver starts with results of an earlier run on disk, it
\* issues no endpoint request for a case id that has a result there, and at
\* the end of the run the result collection on disk holds each earlier
\* result exactly once.
C1_IdempotentResumption ==
    driver = "json" =>
        \A k \in 1..Len(prior) :
            /\ prior[k].case_id \notin requested
            /\ (pc = "done" =>
                  Cardinality({j \in 1..Len(output_file.data) :
                                  output_file.data[j] = prior[k]}) = 1)

\* C5: when the processing of a case of the JSON driver raised, the ledger
\* holds exactly one record for that case, of the exception type, and the
\* cases loop goes on with the next case of the file.
C5_ExceptionIsolated ==
    (driver = "json" /\ last_case.seen
        /\ last_case.outcome \in {"raised", "aborted"}) =>
            /\ Cardinality(LedgerFor(last_case.file, last_case.index)) = 1
            /\ \A k \in LedgerFor(last_case.file, last_case.index) :
                  failed_cases_detail[k].error_type = "Processing exception"
            /\ (last_case.index - SKIP_COUNT < cases_len =>
                  pc = "cases" /\ case_index = last_case.index - SKIP_COUNT)

\* C6: a JSON object that lacks a case identifier (CaseID and index), def_key
\* or a background (Background and background) is not passed to
\* analyze_case, no request is issued for it, and the ledger holds exactly
\* one record for it, of the validation type.
C6_InvalidNeverSubmitted ==
    (driver = "json" /\ last_case.seen /\ last_case.is_dict
        /\ last_case.lacks_required) =>
            /\ ~last_case.submitted
            /\ last_case.requests = 0
            /\ Cardinality(LedgerFor(last_case.file, last_case.index)) = 1
            /\ \A k \in LedgerFor(last_case.file, last_case.index) :
                  failed_cases_detail[k].error_type = "Invalid case data"

\* a case without def_key, after a case of the same file that was analysed
C6_Witness ==
    /\ driver = "json"
    /\ last_case.seen /\ last_case.is_dict /\ last_case.lacks_required
    /\ last_case.outcome = "invalid"
    /\ last_case.index = SKIP_COUNT + 2
    /\ total_processed = 1
    /\ Len(failed_cases_detail) >= 1

\* results of this run that are on disk
DurableResults == IF output_file.fresh THEN Len(output_file.data) ELSE 0

\* C7: at every moment of a run at most 4 of the cases that succeeded so far
\* are missing from the results on disk.
C7_Checkpointed ==
    driver = "json" => total_successful - DurableResults <= CHECKPOINT_EVERY - 1

\* C8: at the end of a run of either driver every case that raised or got
\* no usable result has a record in the failure log on disk.
C8_FailuresPersisted ==
    pc = "done" =>
        \A u \in unusable_cases :
            \E k \in 1..Len(failure_log_file.data) :
                Key(failure_log_file.data[k].file_source,
                    failure_log_file.data[k].case_index) = u

\* ledger records of cases that were passed to analyze_case
FailedCalls ==
    {k \in 1..Len(failed_cases_detail) :
        failed_cases_detail[k].error_type
            \in {"API analysis failed", "Processing exception"}}

\* C9: no valid case of a loaded file is passed over, and every case passed
\* to analyze_case is in the result collection or in the ledger.
C9_Coverage ==
    driver = "json" =>
        /\ ~missed
        /\ submitted_n = Len(results) + Cardinality(FailedCalls)

\* the run went through its files loop to the end (main_json_processor.py
\* line 230, main.py line 74), past the early returns of the start
CleanCompletion ==
    /\ pc = "done"
    /\ n_files > 0
    /\ (driver = "json" => api_key)

\* C11: when analyze_case ended without success because the content of the
\* last answer could not be parsed, the Failure Record of the case does not
\* carry the error_type that the driver gives to API failures.
C11_FailureClassified ==
    (driver = "json" /\ last_case.seen /\ last_case.outcome = "no_result"
        /\ parse_failed(call.last)) =>
            \A k \in LedgerFor(last_case.file, last_case.index) :
                failed_cases_detail[k].error_type # "API analysis failed"

\* C13: every element of the result collection of either driver is a JSON
\* object.
C13_ResultsAreObjects ==
    \A k \in 1..Len(results) : results[k].value \in {"{obj}", "{}"}

\* C14: at the clean completion of a run of either driver the output file
\* has been written by this run and holds exactly the result collection,
\* also when no case succeeded.
C14_OutputFinalized ==
    CleanCompletion =>
        /\ output_file.exists
        /\ output_file.fresh
        /\ output_file.data = results

\* C15: at the end of a run of the JSON driver total_failed equals the
\* number of Failure Records in the ledger.
C15_FailuresCounted ==
    (driver = "json" /\ pc = "done") =>
        total_failed = Len(failed_cases_detail)

\* C16: in a run of either driver without the API credential analyze_case
\* is never invoked and no endpoint request is issued.
C16_ConfigErrorFatal ==
    ~api_key =>
        /\ call.st = "idle"
        /\ submitted_n = 0
        /\ requested = {}

\* C19: at the clean completion of a run of the JSON driver with at least
\* one Failure Record the ledger on disk holds the records of the run, and
\* the results of the run are in the output file all the same.
C19_LedgerBesideResults ==
    (CleanCompletion /\ driver = "json" /\ failed_cases_detail # <<>>) =>
        /\ failure_log_file.exists
        /\ failure_log_file.fresh
        /\ failure_log_file.data = failed_cases_detail
        /\ (results # <<>> =>
              output_file.fresh /\ output_file.data = results)

\* C17: between two consecutive invocations of analyze_case in a run of
\* either driver main() sleeps its request delay at least once.
C17_PacedInvocations ==
    submitted_n >= 2 => gap # <<>>

(***************************************************************************)
(* Claims about the order of the requests, checked under SpecSeq.          *)
(***************************************************************************)
\* the case was booked as a success or as a failure
Resolved(k) ==
    \/ \E j \in 1..Len(results) : results[j].case_id = k
    \/ Key(k, 1) \in unusable_cases

\* C21: once a driver has invoked analyze_case, the retry parameters of
\* the client are those of the configuration object of the driver, and no
\* call issues more requests than the configured MAX_RETRIES.
C21_ConfigApplied ==
    submitted_n >= 1 =>
        /\ max_retries = config.MAX_RETRIES
        /\ (config.has_backoff =>
              /\ backoff_base10 = config.BACKOFF_BASE10
              /\ backoff_cap = config.BACKOFF_CAP)
        /\ call.requests <= config.MAX_RETRIES

\* C18: at every moment at most one request is in flight, it belongs to
\* the case that was invoked last, and every earlier case has been resolved
\* (no request of a case is issued before the case before it is resolved).
C18_StrictlySequential ==
    /\ Cardinality(in_flight) <= 1
    /\ \A q \in in_flight : q.case = submitted_n
    /\ \A k \in requested : \A j \in 1..(k - 1) : Resolved(j)

\* a retry of the second case is in flight
C18_Witness ==
    /\ in_flight = {[case |-> 2, n |-> 1]}
    /\ Resolved(1)
    /\ requested = {1, 2}

(***************************************************************************)
(* Further claims about analyze_case, checked under SpecClient.            *)
(***************************************************************************)
\* C22: after a 200 whose content is no valid JSON the call, if attempts
\* remain, has slept exactly the fixed 2 s and goes on to another request;
\* after attempt number max_retries it has returned the failure None
\* without a sleep, and no request follows.
C22_ParseFailurePolicy ==
    parse_failed(call.last) =>
        IF call.attempt < max_retries
        THEN /\ call.st = "attempting"
             /\ call.last_slept
             /\ call.last_wait = PARSE_RETRY_WAIT_MS
             /\ ENABLED Attempt
        ELSE /\ call.st = "returned"
             /\ call.result = None
             /\ ~call.last_slept
             /\ ~ENABLED Attempt

\* every attempt of the default loop got an unparseable 200: five sleeps
\* of 2 s each, none after the last attempt
C22_Witness ==
    /\ parse_failed(call.last)
    /\ max_retries = DEFAULT_MAX_RETRIES
    /\ call.attempt = max_retries
    /\ call.sleeps = max_retries - 1
    /\ call.slept = (max_retries - 1) * PARSE_RETRY_WAIT_MS

\* C23: while every answer so far was a retryable failure and fewer than
\* max_retries requests were issued, the call goes on to another request;
\* and when the answer to request k, after k-1 retryable failures, is a 200
\* with well-formed JSON, the call has issued exactly k requests and
\* returned the parsed value.
C23_ForwardProgress ==
    /\ (call.retried_only /\ call.requests >= 1 /\ retryable(call.last)
            /\ call.requests < max_retries) =>
                /\ call.st = "attempting"
                /\ call.attempt = call.requests
                /\ ENABLED Attempt
    /\ \A v \in JsonValueTokens :
        (call.retried_only /\ call.last.exc = "none" /\ call.last.status = 200
            /\ call.last.has_content /\ call.last.content \in Wrapped(v)) =>
                /\ call.st = "returned"
                /\ call.result = JsonValue(v)
                /\ call.requests = call.attempt
                /\ call.requests <= max_retries

\* five failures of the default loop, a transport error the last of them,
\* and then the result at the sixth and last request
C23_Witness ==
    /\ max_retries = DEFAULT_MAX_RETRIES
    /\ call.retried_only
    /\ call.requests = max_retries
    /\ call.sleeps = max_retries - 1
    /\ ~call.all_5xx
    /\ call.last = Ok200
    /\ call.st = "returned"
    /\ call.result = "{obj}"

(***************************************************************************)
(* Claims about rate limit hints, checked under SpecRateLimit.             *)
(***************************************************************************)
\* what a message says after "Try again in": N of "Ns", 60*M + S of "MmSs"
StatedHints(msg) ==
    {msg[i + 1].n : i \in seconds_matches(msg)}
    \cup {msg[i + 1].n * 60 + msg[i + 3].n : i \in minutes_matches(msg)}

\* C25: after a 429 without Retry-After header the call has slept
\* min(hint + 5 s, backoff_cap) when the error message says "Try again in Ns"
\* (hint N) or "Try again in MmSs" (hint 60*M + S), and the exponential
\* backoff of the attempt when the message matches neither.
C25_BodyHint ==
    (call.last.exc = "none" /\ call.last.status = 429
        /\ call.last.retry_after = <<>>) =>
            /\ call.last_slept
            /\ \A h \in StatedHints(call.last.message) :
                  call.last_wait = Min((h + RATE_LIMIT_BUFFER_S) * 1000, backoff_cap)
            /\ (StatedHints(call.last.message) = {} =>
                  \E r \in JitterChoices :
                      call.last_wait = calculate_wait_time(call.attempt - 1, r))

\* C27: the call does not sleep after the attempt number max_retries,
\* whatever its outcome.
C27_NoSleepAfterFinalAttempt ==
    call.attempt = max_retries => ~call.last_slept

\* C28: no exception escapes analyze_case.
C28_NeverRaises ==
    call.st # "raised"

(***************************************************************************)
(* Further claims about the batch drivers, checked under Spec.             *)
(***************************************************************************)
\* C24: the result collection of a run of the JSON driver never holds two
\* results for one case id.
C24_CaseIdIdempotent ==
    driver = "json" =>
        \A i \in 1..Len(results) : \A j \in 1..Len(results) :
            results[i].case_id = results[j].case_id => i = j

\* C26: a case for which analyze_case returned the parsed payload of a 200
\* (an empty object included) is booked as a success.
C26_ParsedMeansSuccess ==
    (last_case.seen /\ last_case.submitted /\ call.st = "returned"
        /\ call.last.exc = "none" /\ call.last.status = 200
        /\ call.last.has_content /\ json_ok(clean_content(call.last.content))) =>
            /\ last_case.outcome = "success"
            /\ \E k \in 1..Len(results) : results[k].case_id = last_case.case_id

====
